---- MODULE Spec2Model ----
(***************************************************************************)
(* Model of meta-pet-mobile/assets/convert-svg.py: the asset generator     *)
(* that rasterizes two SVG templates into four PNG files.                  *)
(*                                                                         *)
(* The state is the part of the file system the script touches, the        *)
(* position of main() and of convert_svg_to_png(), the console output and  *)
(* the way the run ended.  The rasterizer (cairosvg.svg2png) and the file  *)
(* write are external calls: each either succeeds or raises, chosen        *)
(* nondeterministically.  The icons path is taken to be absent or a        *)
(* directory, and the script directory to exist and be listable.           *)
(***************************************************************************)
EXTENDS Integers, Sequences, FiniteSets, TLC

\* Number of invocations of the script that are explored.
MaxRuns == 2

----------------------------------------------------------------------------
(* Paths, relative to the script directory (assets_dir).                   *)

ICON_SVG == "PLACEHOLDER_ICON.svg"
SPLASH_SVG == "PLACEHOLDER_SPLASH.svg"
ICONS_DIR == "icons"
ICON_PNG == "icons/icon.png"
ADAPTIVE_PNG == "icons/adaptive-icon.png"
FAVICON_PNG == "icons/favicon.png"
SPLASH_PNG == "splash.png"
\* A file in the icons directory that the script does not know about.
UNRELATED == "icons/unrelated.png"

Sources == {ICON_SVG, SPLASH_SVG}
Outputs == {ICON_PNG, ADAPTIVE_PNG, FAVICON_PNG, SPLASH_PNG}
InIconsDir == {ICON_PNG, ADAPTIVE_PNG, FAVICON_PNG, UNRELATED}
Paths == Sources \cup Outputs \cup {ICONS_DIR, UNRELATED}

----------------------------------------------------------------------------
(* File contents.  Every content is a record of the same shape.            *)

File(kind, data, w, h) == [kind |-> kind, data |-> data, w |-> w, h |-> h]

Absent == File("absent", "", 0, 0)
Dir == File("dir", "", 0, 0)
Svg(text) == File("svg", text, 0, 0)
\* A file that was opened for writing and whose write did not complete.
Partial == File("partial", "", 0, 0)
\* What a path holds before the first run, when it holds anything.
Stale == File("stale", "", 0, 0)

SvgTexts == {"drawingA", "drawingB"}
SourceContents == {Absent} \cup {Svg(t) : t \in SvgTexts}

\* cairosvg.svg2png(url, output_width, output_height): the PNG bytes are a
\* function of the SVG text and of the requested size.
svg2png(svg, output_width, output_height) ==
    File("png", svg.data, output_width, output_height)

exists(fsys, path) == fsys[path] # Absent

----------------------------------------------------------------------------
(* The batch of main(): the four calls of convert_svg_to_png, in order.    *)

\* Mutant: the favicon call copies the size of the call above it.
MutBatchFaviconSize ==
    << [svg |-> ICON_SVG, png |-> ICON_PNG, width |-> 1024, height |-> 1024],
       [svg |-> ICON_SVG, png |-> ADAPTIVE_PNG, width |-> 1024, height |-> 1024],
       [svg |-> ICON_SVG, png |-> FAVICON_PNG, width |-> 1024, height |-> 1024],
       [svg |-> SPLASH_SVG, png |-> SPLASH_PNG, width |-> 1284, height |-> 2778] >>

\* Mutant: the splash call is made before the favicon call.
MutBatchOrder ==
    << [svg |-> ICON_SVG, png |-> ICON_PNG, width |-> 1024, height |-> 1024],
       [svg |-> ICON_SVG, png |-> ADAPTIVE_PNG, width |-> 1024, height |-> 1024],
       [svg |-> SPLASH_SVG, png |-> SPLASH_PNG, width |-> 1284, height |-> 2778],
       [svg |-> ICON_SVG, png |-> FAVICON_PNG, width |-> 48, height |-> 48] >>

BATCH ==
    << [svg |-> ICON_SVG, png |-> ICON_PNG, width |-> 1024, height |-> 1024],
       [svg |-> ICON_SVG, png |-> ADAPTIVE_PNG, width |-> 1024, height |-> 1024],
       [svg |-> ICON_SVG, png |-> FAVICON_PNG, width |-> 48, height |-> 48],
       [svg |-> SPLASH_SVG, png |-> SPLASH_PNG, width |-> 1284, height |-> 2778] >>

\* Mutant: mkdir() without exist_ok.
MutMkdirNoExistOk == FALSE

\* The exist_ok argument of icons_dir.mkdir.
MKDIR_EXIST_OK == TRUE

\* Mutant: the arguments of convert_svg_to_png are taken in the other order.
MutOpenTargetSource(svg_path, png_path) == svg_path

\* open(png_path, 'wb'): the file convert_svg_to_png opens for writing.
OpenTarget(svg_path, png_path) == png_path

\* Path.mkdir raises FileExistsError when the path exists and exist_ok is
\* false.
MkdirRaises(fsys) == exists(fsys, ICONS_DIR) /\ ~MKDIR_EXIST_OK

\* Console lines.
Line(msg, path) == [msg |-> msg, path |-> path]
SUMMARY == Line("All assets converted successfully!", "")

\* exit(main()): the value main returned, or 1 when an exception escaped it.
ExitStatus(st) == IF st = "return 0" THEN 0 ELSE 1

----------------------------------------------------------------------------
VARIABLES
    fs,         \* the file system: path -> content
    pc,         \* position in main() / convert_svg_to_png()
    step,       \* which of the four calls of convert_svg_to_png is current
    png_data,   \* the local png_data of convert_svg_to_png
    stdout,     \* the console lines of the current run
    status,     \* how the current run ended, "running" until it has
    run,        \* number of the current invocation
    fsStart,    \* the file system when the current run started
    written,    \* the paths the current run opened for writing, in order
    prevFs,     \* the file system when the previous run ended
    prevStatus  \* how the previous run ended ("none" in the first run)

vars == << fs, pc, step, png_data, stdout, status, run, fsStart, written,
           prevFs, prevStatus >>

\* A file lives in the icons directory only when that directory exists.
WellFormed(fsys) ==
    fsys[ICONS_DIR] = Absent => \A p \in InIconsDir : fsys[p] = Absent

InitialFileSystems ==
    { f \in [Paths -> SourceContents \cup {Dir, Stale}] :
        /\ f[ICON_SVG] \in SourceContents
        /\ f[SPLASH_SVG] \in SourceContents
        /\ f[ICONS_DIR] \in {Absent, Dir}
        /\ \A p \in Outputs \cup {UNRELATED} : f[p] \in {Absent, Stale}
        /\ WellFormed(f) }

Init ==
    /\ fs \in InitialFileSystems
    /\ pc = "mkdir"
    /\ step = 1
    /\ png_data = Absent
    /\ stdout = << >>
    /\ status = "running"
    /\ run = 1
    /\ fsStart = fs
    /\ written = << >>
    /\ prevFs = fs
    /\ prevStatus = "none"

\* An exception escapes main(): nothing after the raising call runs.
Raise(exception) ==
    /\ status' = exception
    /\ pc' = "done"

\* Mutant: the directory is never created.
MutMkdirSkipped ==
    /\ pc = "mkdir"
    /\ pc' = "check_icon"
    /\ UNCHANGED << fs, status, step, png_data, stdout, run, fsStart, written,
                    prevFs, prevStatus >>

\* Mutant: the directory is emptied and made anew.
MutMkdirRecreate ==
    /\ pc = "mkdir"
    /\ fs' = [p \in Paths |-> IF p = ICONS_DIR THEN Dir
                              ELSE IF p \in InIconsDir THEN Absent
                              ELSE fs[p]]
    /\ pc' = "check_icon"
    /\ UNCHANGED << status, step, png_data, stdout, run, fsStart, written,
                    prevFs, prevStatus >>

\* icons_dir.mkdir(exist_ok=True)
Mkdir ==
    /\ pc = "mkdir"
    /\ IF MkdirRaises(fs)
         THEN /\ Raise("FileExistsError")
              /\ fs' = fs
         ELSE /\ fs' = [fs EXCEPT ![ICONS_DIR] = Dir]
              /\ pc' = "check_icon"
              /\ status' = status
    /\ UNCHANGED << step, png_data, stdout, run, fsStart, written, prevFs,
                    prevStatus >>

\* if not icon_svg.exists(): print error; return 1
CheckIcon ==
    /\ pc = "check_icon"
    /\ IF ~exists(fs, ICON_SVG)
         THEN /\ stdout' = Append(stdout, Line("Error: not found!", ICON_SVG))
              /\ status' = "return 1"
              /\ pc' = "done"
         ELSE /\ pc' = "check_splash"
              /\ UNCHANGED << stdout, status >>
    /\ UNCHANGED << fs, step, png_data, run, fsStart, written, prevFs,
                    prevStatus >>

\* Mutant: the splash source is not checked before the conversions.
MutCheckSplashSkipped ==
    /\ pc = "check_splash"
    /\ pc' = "svg2png"
    /\ UNCHANGED << fs, stdout, status, step, png_data, run, fsStart, written,
                    prevFs, prevStatus >>

\* if not splash_svg.exists(): print error; return 1
CheckSplash ==
    /\ pc = "check_splash"
    /\ IF ~exists(fs, SPLASH_SVG)
         THEN /\ stdout' = Append(stdout, Line("Error: not found!", SPLASH_SVG))
              /\ status' = "return 1"
              /\ pc' = "done"
         ELSE /\ pc' = "svg2png"
              /\ UNCHANGED << stdout, status >>
    /\ UNCHANGED << fs, step, png_data, run, fsStart, written, prevFs,
                    prevStatus >>

\* Mutant: a failed rasterization is tried again.
MutRasterizeRetry ==
    /\ pc = "svg2png"
    /\ stdout' = Append(stdout, Line("Converting", BATCH[step].png))
    /\ \/ /\ png_data' = svg2png(fs[BATCH[step].svg], BATCH[step].width,
                                 BATCH[step].height)
          /\ pc' = "write"
       \/ /\ pc' = "svg2png"
          /\ png_data' = png_data
    /\ UNCHANGED << fs, status, step, run, fsStart, written, prevFs,
                    prevStatus >>

\* Mutant: the destination is opened before the rasterization.
MutRasterizeOpensFirst ==
    /\ pc = "svg2png"
    /\ stdout' = Append(stdout, Line("Converting", BATCH[step].png))
    /\ fs' = [fs EXCEPT ![BATCH[step].png] = Partial]
    /\ \/ /\ png_data' = svg2png(fs[BATCH[step].svg], BATCH[step].width,
                                 BATCH[step].height)
          /\ pc' = "write"
          /\ status' = status
          /\ written' = written
       \/ /\ Raise("svg2png raised")
          /\ png_data' = png_data
          /\ written' = Append(written, BATCH[step].png)
    /\ UNCHANGED << step, run, fsStart, prevFs, prevStatus >>

\* convert_svg_to_png, first half: the progress line and the rasterization.
Rasterize ==
    /\ pc = "svg2png"
    /\ stdout' = Append(stdout, Line("Converting", BATCH[step].png))
    /\ \/ /\ png_data' = svg2png(fs[BATCH[step].svg], BATCH[step].width,
                                 BATCH[step].height)
          /\ pc' = "write"
          /\ status' = status
       \/ /\ Raise("svg2png raised")
          /\ png_data' = png_data
    /\ UNCHANGED << fs, step, run, fsStart, written, prevFs, prevStatus >>

\* Mutant: the summary follows the third call.
MutAfterCallEarly(k) == IF k < Len(BATCH) - 1 THEN "svg2png" ELSE "summary"

\* Where main() continues after the call of convert_svg_to_png returns.
AfterCall(k) == IF k < Len(BATCH) THEN "svg2png" ELSE "summary"

\* convert_svg_to_png, second half: open(png_path, 'wb'), f.write(png_data)
\* and the confirmation line.
WriteFile ==
    /\ pc = "write"
    /\ \/ /\ fs' = [fs EXCEPT ![OpenTarget(BATCH[step].svg, BATCH[step].png)] =
                                 png_data]
          /\ written' = Append(written,
                               OpenTarget(BATCH[step].svg, BATCH[step].png))
          /\ stdout' = Append(stdout, Line("created", BATCH[step].png))
          /\ pc' = AfterCall(step)
          /\ step' = IF step < Len(BATCH) THEN step + 1 ELSE step
          /\ png_data' = Absent
          /\ status' = status
       \/ \* open() raises: the file is not touched
          /\ Raise("open raised")
          /\ UNCHANGED << fs, written, stdout, step, png_data >>
       \/ \* f.write() raises: the file was truncated by open()
          /\ Raise("write raised")
          /\ fs' = [fs EXCEPT ![OpenTarget(BATCH[step].svg, BATCH[step].png)] =
                                 Partial]
          /\ written' = Append(written,
                               OpenTarget(BATCH[step].svg, BATCH[step].png))
          /\ UNCHANGED << stdout, step, png_data >>
    /\ UNCHANGED << run, fsStart, prevFs, prevStatus >>

\* The summary lines and return 0.
Summary ==
    /\ pc = "summary"
    /\ stdout' = Append(stdout, SUMMARY)
    /\ status' = "return 0"
    /\ pc' = "done"
    /\ UNCHANGED << fs, step, png_data, run, fsStart, written, prevFs,
                    prevStatus >>

\* The script is invoked again.  Between two invocations the user may have
\* edited, removed or restored the two source files.
Invoke ==
    /\ pc = "done"
    /\ run < MaxRuns
    /\ \E icon \in SourceContents, splash \in SourceContents :
          fs' = [fs EXCEPT ![ICON_SVG] = icon, ![SPLASH_SVG] = splash]
    /\ fsStart' = fs'
    /\ prevFs' = fs
    /\ prevStatus' = status
    /\ run' = run + 1
    /\ pc' = "mkdir"
    /\ step' = 1
    /\ png_data' = Absent
    /\ stdout' = << >>
    /\ status' = "running"
    /\ written' = << >>

Next ==
    \/ Mkdir
    \/ CheckIcon
    \/ CheckSplash
    \/ Rasterize
    \/ WriteFile
    \/ Summary
    \/ Invoke

Spec == Init /\ [][Next]_vars

----------------------------------------------------------------------------
(* Vocabulary of the properties.                                           *)

\* The four outputs in the order the specification lists them.
OutputOrder == << ICON_PNG, ADAPTIVE_PNG, FAVICON_PNG, SPLASH_PNG >>

IsPrefix(s, t) == Len(s) <= Len(t) /\ \A i \in 1..Len(s) : s[i] = t[i]
Range(s) == { s[i] : i \in 1..Len(s) }
PathsOf(msg) ==
    LET lines == SelectSeq(stdout, LAMBDA l : l.msg = msg)
    IN  [i \in 1..Len(lines) |-> lines[i].path]

\* The destinations of the conversions started / completed in this run.
Started == PathsOf("Converting")
Created == PathsOf("created")

Finished == pc = "done"
InputMissing == ~exists(fsStart, ICON_SVG) \/ ~exists(fsStart, SPLASH_SVG)
Raised == status \in {"FileExistsError", "svg2png raised", "open raised",
                      "write raised"}
ConversionFailed == status \in {"svg2png raised", "open raised", "write raised"}
SummaryPrinted == SUMMARY \in Range(stdout)

\* What the specification's table says each output is rendered from.
Expected(p) ==
    CASE p = ICON_PNG -> svg2png(fsStart[ICON_SVG], 1024, 1024)
      [] p = ADAPTIVE_PNG -> svg2png(fsStart[ICON_SVG], 1024, 1024)
      [] p = FAVICON_PNG -> svg2png(fsStart[ICON_SVG], 48, 48)
      [] p = SPLASH_PNG -> svg2png(fsStart[SPLASH_SVG], 1284, 2778)

OutputsUntouched == \A p \in Outputs : fs[p] = fsStart[p]

\* C1: with either source absent at the start of the run, no conversion is
\* ever started and no output is created or overwritten, and the run ends
\* by returning 1.
C1_MissingInputStopsRun ==
    InputMissing =>
        /\ Started = << >>
        /\ written = << >>
        /\ OutputsUntouched
        /\ pc \notin {"svg2png", "write", "summary"}
        /\ Finished => status = "return 1"

\* C1 witness: only the splash source is missing, outputs of an earlier
\* time are on disk, and the run has ended.
C1_Witness ==
    /\ Finished
    /\ exists(fsStart, ICON_SVG)
    /\ ~exists(fsStart, SPLASH_SVG)
    /\ fsStart[ICON_PNG] = Stale
    /\ status = "return 1"

\* C2: a run that succeeds has written exactly the four outputs, each the
\* rendering of its stated source at its stated size, the splash in the
\* script directory.
C2_FourOutputs ==
    (Finished /\ status = "return 0") =>
        /\ \A p \in Outputs : fs[p] = Expected(p)
        /\ fs[SPLASH_PNG].w = 1284 /\ fs[SPLASH_PNG].h = 2778
        /\ Range(written) = Outputs
        /\ Len(written) = Cardinality(Outputs)

\* C2 witness: a successful run whose two sources differ.
C2_Witness ==
    /\ Finished
    /\ status = "return 0"
    /\ fsStart[ICON_SVG] = Svg("drawingA")
    /\ fsStart[SPLASH_SVG] = Svg("drawingB")
    /\ fsStart[ICONS_DIR] = Absent

\* C3: a finished run returned 0 exactly when its four conversions all
\* completed, the summary is printed exactly in that case, and a run with a
\* missing input or a failed conversion prints no summary and exits non-zero.
C3_SuccessIffAllFour ==
    /\ SummaryPrinted <=> status = "return 0"
    /\ Finished => (status = "return 0" <=> Created = OutputOrder)
    /\ (Finished /\ (InputMissing \/ ConversionFailed)) =>
            /\ ~SummaryPrinted
            /\ ExitStatus(status) # 0

\* C3 witness: a run that failed in its last conversion, after three
\* outputs were created.
C3_Witness ==
    /\ Finished
    /\ ConversionFailed
    /\ Len(Created) = 3

\* C4: when step k fails, exactly the steps 1..k were started, each once,
\* nothing runs after the failure, and the outputs of steps 1..k-1 are on
\* disk as they were written.
C4_FailureAborts ==
    ConversionFailed =>
        /\ Finished
        /\ Started = SubSeq(OutputOrder, 1, step)
        /\ Created = SubSeq(OutputOrder, 1, step - 1)
        /\ \A j \in 1..(step - 1) : fs[OutputOrder[j]] = Expected(OutputOrder[j])

\* C4 witness: the third step failed after two outputs were written.
C4_Witness ==
    /\ ConversionFailed
    /\ step = 3
    /\ fsStart[ICON_PNG] = Absent
    /\ fs[ICON_PNG] = Expected(ICON_PNG)
    /\ fs[ADAPTIVE_PNG] = Expected(ADAPTIVE_PNG)

\* C5: conversions start in the fixed order, one at a time: a step starts
\* only when all steps before it have finished writing, and the outputs
\* written by the run are always a prefix of the order.
C5_Sequential ==
    /\ IsPrefix(Started, OutputOrder)
    /\ IsPrefix(Created, OutputOrder)
    /\ IsPrefix(written, OutputOrder)
    /\ Len(Created) <= Len(Started)
    /\ Len(Started) <= Len(Created) + 1
    /\ Len(written) <= Len(Started)

\* C5 witness: the third conversion has started and two outputs are written.
C5_Witness ==
    /\ pc = "write"
    /\ Len(Started) = 3
    /\ written = << ICON_PNG, ADAPTIVE_PNG >>

\* C6: a run that follows a successful run, with nothing changed in between,
\* is not stopped by the outputs and the directory already being there, and
\* when it succeeds it leaves the file system as the first run left it.
C6_SecondRunSame ==
    (run > 1 /\ prevStatus = "return 0" /\ fsStart = prevFs /\ Finished) =>
        /\ status \notin {"FileExistsError", "return 1"}
        /\ status = "return 0" => fs = prevFs

\* C6 witness: two successful runs in a row on the same sources.
C6_Witness ==
    /\ run = 2
    /\ prevStatus = "return 0"
    /\ fsStart = prevFs
    /\ Finished
    /\ status = "return 0"

\* C7: past the ensure-directory step the icons directory exists, the step
\* never fails and changes nothing else, and the unrelated file of the icons
\* directory is as it was when the run started.
C7_EnsureDirectory ==
    /\ pc # "mkdir" => fs[ICONS_DIR] = Dir
    /\ status # "FileExistsError"
    /\ pc = "check_icon" => \A p \in Paths \ {ICONS_DIR} : fs[p] = fsStart[p]
    /\ fs[UNRELATED] = fsStart[UNRELATED]

\* C7 witness: a finished successful run in a directory that already held
\* the unrelated file.
C7_Witness ==
    /\ Finished
    /\ status = "return 0"
    /\ fsStart[ICONS_DIR] = Dir
    /\ fsStart[UNRELATED] = Stale

\* C8: within a run, a step changes at most one path; a write step changes
\* only the destination of the current call, the only other change is the
\* creation of the icons directory, and the two sources stay as they were.
C8_OnlyDestinationWritten ==
    /\ [](\A p \in Sources : fs[p] = fsStart[p])
    /\ [](Range(written) \subseteq Outputs)
    /\ [][run' = run =>
            \A p \in Paths :
                fs'[p] # fs[p] =>
                    \/ pc = "write" /\ p = OutputOrder[step]
                    \/ pc = "mkdir" /\ p = ICONS_DIR]_vars

\* C8 witness: a run has written all four outputs.
C8_Witness ==
    /\ Len(written) = Cardinality(Outputs)
    /\ \A p \in Outputs : fs[p] # fsStart[p]

\* C9 as stated: a run that returns 1 leaves the whole file system,
\* the icons directory included, as it found it.
C9_NoMutationAtAll ==
    (Finished /\ status = "return 1") => fs = fsStart

\* C9 amended: a run that returns 1 changes no file, and the only change it
\* makes is that the icons directory exists afterwards.
C9_OnlyDirectoryCreated ==
    (Finished /\ status = "return 1") =>
        /\ \A p \in Paths \ {ICONS_DIR} : fs[p] = fsStart[p]
        /\ fs[ICONS_DIR] = Dir

\* C9 witness: a run returned 1 and created the icons directory.
C9_Witness ==
    /\ Finished
    /\ status = "return 1"
    /\ fsStart[ICONS_DIR] = Absent
    /\ fs[ICONS_DIR] = Dir

\* C10: the destination of the current call is untouched until its
\* rasterization has returned, so it keeps its content when the
\* rasterization fails; a path becomes partial only by a failed write to it.
C10_RasterFailureKeepsFile ==
    /\ (pc \in {"svg2png", "write"} \/ status \in {"svg2png raised", "open raised"})
            => fs[OutputOrder[step]] = fsStart[OutputOrder[step]]
    /\ \A p \in Paths :
          (fs[p] = Partial /\ fsStart[p] # Partial) =>
              (status = "write raised" /\ p = OutputOrder[step])

\* C10 witness: the rasterization of the second step failed in a second run,
\* with the output of the first run at its destination.
C10_Witness ==
    /\ status = "svg2png raised"
    /\ step = 2
    /\ fsStart[ADAPTIVE_PNG].kind = "png"
    /\ fs[ADAPTIVE_PNG] = fsStart[ADAPTIVE_PNG]

====
